---- MODULE Spec2Model ----
(***************************************************************************)
(* pyndulum/pendulum_equations.py: six pure functions over Python floats   *)
(* (IEEE-754 binary floating point) and two module constants.              *)
(*                                                                         *)
(* Floats are modelled as a binary floating-point format with the IEEE     *)
(* structure (signed zeros, subnormals, infinities, NaN, round to nearest  *)
(* ties to even, overflow to infinity, gradual underflow) and a reduced    *)
(* significand width Precision and exponent range Emax. binary64 is the    *)
(* same format with Precision = 53 and Emax = 1023.                        *)
(***************************************************************************)
EXTENDS Integers, Sequences, FiniteSets

VARIABLES G, SECONDS_IN_MINUTE, call, stack, ret

vars == <<G, SECONDS_IN_MINUTE, call, stack, ret>>

(***************************************************************************)
(* The floating-point format                                               *)
(***************************************************************************)
Precision == 14
Emax == 20

\* exponent of the last place of the smallest and of the largest binade
Qmin == 2 - Emax - Precision
Qmax == Emax - Precision + 1

NaN == [k |-> "nan", s |-> 0, m |-> 0, e |-> 0]
Inf(s) == [k |-> "inf", s |-> s, m |-> 0, e |-> 0]
\* the finite value (-1)^s * m * 2^e
Fin(s, m, e) == [k |-> "fin", s |-> s, m |-> m, e |-> e]
Zero(s) == Fin(s, 0, Qmin)

IsNaN(a) == a.k = "nan"
IsInf(a) == a.k = "inf"
IsFinite(a) == a.k = "fin"
IsZero(a) == a.k = "fin" /\ a.m = 0
IsNormal(a) == a.k = "fin" /\ a.m >= 2^(Precision - 1)

RECURSIVE BitLen(_)
BitLen(n) == IF n = 0 THEN 0 ELSE 1 + BitLen(n \div 2)

\* The float nearest to (-1)^s * (n + t) * 2^e, where 0 < t < 1 when sticky
\* and t = 0 otherwise: round to nearest, ties to even; a result beyond the
\* largest finite value is an infinity, one below the smallest subnormal a zero.
Round(s, n, e, sticky) ==
  IF n = 0 THEN Zero(s)
  ELSE LET q  == IF e + BitLen(n) - Precision > Qmin
                   THEN e + BitLen(n) - Precision ELSE Qmin
           sh == q - e
           m0 == IF sh <= 0 THEN n * 2^(0 - sh)
                 ELSE IF sh > 30 THEN 0 ELSE n \div 2^sh
           r  == IF sh <= 0 \/ sh > 30 THEN 0 ELSE n % 2^sh
           up == IF sh <= 0 THEN FALSE
                 ELSE IF sh > 31 THEN FALSE
                 ELSE IF sh = 31 THEN n > 2^30 \/ (n = 2^30 /\ sticky)
                 ELSE r > 2^(sh - 1)
                      \/ (r = 2^(sh - 1) /\ (sticky \/ m0 % 2 = 1))
           m  == m0 + (IF up THEN 1 ELSE 0)
           m2 == IF m = 2^Precision THEN 2^(Precision - 1) ELSE m
           q2 == IF m = 2^Precision THEN q + 1 ELSE q
       IN  IF q2 > Qmax THEN Inf(s)
           ELSE IF m2 = 0 THEN Zero(s) ELSE Fin(s, m2, q2)

\* a non-zero finite value with its significand shifted up to Precision bits
Norm(a) ==
  LET d == Precision - BitLen(a.m) IN [m |-> a.m * 2^d, e |-> a.e - d]

\* the float nearest to the integer n
FromInt(n) == IF n < 0 THEN Round(1, 0 - n, 0, FALSE) ELSE Round(0, n, 0, FALSE)

\* a * b
Mul(a, b) ==
  IF IsNaN(a) \/ IsNaN(b) THEN NaN
  ELSE LET s == (a.s + b.s) % 2 IN
       IF IsInf(a) \/ IsInf(b)
         THEN IF IsZero(a) \/ IsZero(b) THEN NaN ELSE Inf(s)
         ELSE Round(s, a.m * b.m, a.e + b.e, FALSE)

\* a / b on NumPy scalars: a zero divisor gives an infinity or NaN
Div(a, b) ==
  IF IsNaN(a) \/ IsNaN(b) THEN NaN
  ELSE LET s == (a.s + b.s) % 2 IN
       IF IsInf(a) THEN (IF IsInf(b) THEN NaN ELSE Inf(s))
       ELSE IF IsInf(b) THEN Zero(s)
       ELSE IF IsZero(b) THEN (IF IsZero(a) THEN NaN ELSE Inf(s))
       ELSE IF IsZero(a) THEN Zero(s)
       ELSE LET na == Norm(a)
                nb == Norm(b)
                q1 == (na.m * 256) \div nb.m
                r1 == (na.m * 256) % nb.m
                q2 == (r1 * 256) \div nb.m
                r2 == (r1 * 256) % nb.m
            IN  Round(s, q1 * 256 + q2, na.e - nb.e - 16, r2 # 0)

\* an exception raised instead of a value returned
Raised == [k |-> "raise", s |-> 0, m |-> 0, e |-> 0]

\* a / b on Python floats: a zero divisor raises ZeroDivisionError
PyDiv(a, b) == IF IsZero(b) THEN Raised ELSE Div(a, b)

\* the largest r with r * r <= n, found bit by bit
RECURSIVE ISqrtFrom(_, _, _)
ISqrtFrom(n, r, bit) ==
  IF bit = 0 THEN r
  ELSE IF (r + bit) * (r + bit) <= n
         THEN ISqrtFrom(n, r + bit, bit \div 2)
         ELSE ISqrtFrom(n, r, bit \div 2)

ISqrt(n) == ISqrtFrom(n, 0, 2^14)

\* np.sqrt: NaN for a negative argument, -0.0 for -0.0
Sqrt(a) ==
  IF IsNaN(a) THEN NaN
  ELSE IF IsZero(a) THEN a
  ELSE IF a.s = 1 THEN NaN
  ELSE IF IsInf(a) THEN a
  ELSE LET na == Norm(a)
           k  == IF (na.e - Precision) % 2 = 0 THEN Precision ELSE Precision - 1
           n  == na.m * 2^k
           r  == ISqrt(n)
           hi == (n - r * r) > r
       IN  Round(0, 2 * r + (IF hi THEN 1 ELSE 0), ((na.e - k) \div 2) - 1,
                 n # r * r)

\* a == b, a < b, a <= b on floats: false when either side is NaN, and
\* -0.0 == 0.0
CmpMag(a, b) ==
  IF IsInf(a) THEN (IF IsInf(b) THEN 0 ELSE 1)
  ELSE IF IsInf(b) THEN -1
  ELSE IF a.e # b.e THEN (IF a.e < b.e THEN -1 ELSE 1)
  ELSE IF a.m < b.m THEN -1 ELSE IF a.m > b.m THEN 1 ELSE 0

Eq(a, b) ==
  /\ ~IsNaN(a) /\ ~IsNaN(b)
  /\ (IsZero(a) /\ IsZero(b)) \/ a = b

Lt(a, b) ==
  /\ ~IsNaN(a) /\ ~IsNaN(b)
  /\ IF IsZero(a) /\ IsZero(b) THEN FALSE
     ELSE IF a.s # b.s THEN a.s = 1
     ELSE IF a.s = 0 THEN CmpMag(a, b) = -1 ELSE CmpMag(a, b) = 1

Le(a, b) == Lt(a, b) \/ Eq(a, b)

(***************************************************************************)
(* np.cos.  The argument is reduced to [0, pi/2] and the Taylor series is  *)
(* summed in fixed point with 18 fractional bits; the sum is then          *)
(* rounded to the format.  The absolute error is below 2^-16 for          *)
(* |a| < 2^12; beyond that the reduction modulo the rounded 2 pi loses     *)
(* accuracy.                                                               *)
(***************************************************************************)
CosOne == 2^18
\* pi/2, pi and 2 pi in units of 2^-18
CosHalfPi == 411775
CosPi == 823550
CosTwoPi == 1647099

\* x * y / 2^18 for fixed-point x < 2^21, y <= 2^18
FixMul(x, y) == (x * (y \div 512)) \div 512 + (x * (y % 512)) \div CosOne

\* r * 2^j modulo 2 pi, in units of 2^-18
RECURSIVE DoubleMod(_, _)
DoubleMod(r, j) ==
  IF j = 0 THEN r ELSE DoubleMod((2 * r) % CosTwoPi, j - 1)

\* |a| modulo 2 pi in units of 2^-18, rounded down
ToFix(a) ==
  IF a.e + 18 >= 0 THEN DoubleMod(a.m % CosTwoPi, a.e + 18)
  ELSE IF 0 - (a.e + 18) > 30 THEN 0
  ELSE (a.m \div 2^(0 - (a.e + 18))) % CosTwoPi

\* cos w for w in [0, pi/2] (fixed point), by Horner's rule on
\* 1 - y/2 (1 - y/12 (1 - y/30 (1 - y/56 (1 - y/90 (1 - y/132))))), y = w^2
CosSeries(w) ==
  LET y  == FixMul(w, w)
      t6 == CosOne - y \div 132
      t5 == CosOne - FixMul(y, t6) \div 90
      t4 == CosOne - FixMul(y, t5) \div 56
      t3 == CosOne - FixMul(y, t4) \div 30
      t2 == CosOne - FixMul(y, t3) \div 12
      t1 == CosOne - FixMul(y, t2) \div 2
  IN  IF t1 < 0 THEN 0 ELSE t1

Cos(a) ==
  IF IsNaN(a) \/ IsInf(a) THEN NaN
  ELSE LET x == ToFix(a)
           z == IF x > CosPi THEN CosTwoPi - x ELSE x
       IN  IF z > CosHalfPi
             THEN Round(1, CosSeries(CosPi - z), -18, FALSE)
             ELSE Round(0, CosSeries(z), -18, FALSE)

(***************************************************************************)
(* Literals of the source                                                  *)
(***************************************************************************)
\* the decimal literal n/d, for integers n, d the format holds exactly
Dec(n, d) == Div(FromInt(n), FromInt(d))

\* np.pi: pi = (843314856 + t) * 2^-28 with 0 < t < 1
PI == Round(0, 843314856, -28, TRUE)

\* (mutant) G rounded to one decimal
GLiteral_one_decimal == Dec(98, 10)

\* the literals 9.81 and 60.0 the module constants are set to
GLiteral == Dec(981, 100)
SecondsLiteral == FromInt(60)

(***************************************************************************)
(* The six functions.  f_return is the return expression of f in terms of  *)
(* the value its callee returned.                                          *)
(***************************************************************************)
\* (mutant) the quotient inverted: G / length
get_period_inverted(length) ==
  LET q == PyDiv(G, length)
  IN  IF q = Raised THEN Raised ELSE Mul(Mul(FromInt(2), PI), Sqrt(q))

\* (mutant) a negative length is rejected with an exception
get_period_validating(length) ==
  LET q == PyDiv(length, G)
  IN  IF q = Raised \/ Lt(length, Zero(0)) THEN Raised
      ELSE Mul(Mul(FromInt(2), PI), Sqrt(q))

get_period(length) ==
  LET q == PyDiv(length, G)
  IN  IF q = Raised THEN Raised ELSE Mul(Mul(FromInt(2), PI), Sqrt(q))

max_height(length, theta) == Mul(length, Cos(theta))

\* (mutant) the factor 2.0 dropped
max_speed_return_no_factor(h) == Sqrt(Mul(G, h))

max_speed_return(h) == Sqrt(Mul(Mul(FromInt(2), G), h))

max_speed(length, theta) == max_speed_return(max_height(length, theta))

\* (mutant) < instead of <=
check_small_angle_strict(theta) == Lt(theta, Div(PI, FromInt(1800)))

check_small_angle(theta) == Le(theta, Div(PI, FromInt(1800)))

\* (mutant) period / SECONDS_IN_MINUTE
bpm_return_inverted(period) ==
  IF period = Raised THEN Raised ELSE Div(period, SECONDS_IN_MINUTE)

\* (mutant) the division done on Python floats, which raises on a zero period
bpm_return_python_division(period) ==
  IF period = Raised THEN Raised ELSE PyDiv(SECONDS_IN_MINUTE, period)

bpm_return(period) ==
  IF period = Raised THEN Raised ELSE Div(SECONDS_IN_MINUTE, period)

bpm(length) == bpm_return(get_period(length))

\* (mutant) the factor 0.5 dropped
calc_energy_return_no_half(mass, v) == Mul(mass, Mul(v, v))

calc_energy_return(mass, v) == Mul(Mul(Dec(1, 2), mass), Mul(v, v))

calc_energy(mass, theta, length) ==
  calc_energy_return(mass, max_speed(length, theta))

(***************************************************************************)
(* Callers.  Each caller invokes one function at a time; a call runs as a  *)
(* stack of frames, one step per frame entry or return, and the steps of   *)
(* different callers interleave.                                           *)
(***************************************************************************)
NumCallers == 2
Callers == 1..NumCallers

NoValue == [k |-> "none", s |-> 0, m |-> 0, e |-> 0]
Bool(b) == [k |-> IF b THEN "true" ELSE "false", s |-> 0, m |-> 0, e |-> 0]

Frame(f, a) == [f |-> f, a |-> a]
NoCall == Frame("none", <<>>)

Top(c) == stack[c][Len(stack[c])]
Running(c, f) == stack[c] # <<>> /\ Top(c).f = f
Push(c, fr) == stack' = [stack EXCEPT ![c] = Append(@, fr)]
Pop(c) == stack' = [stack EXCEPT ![c] = SubSeq(@, 1, Len(@) - 1)]
Return(c, v) == ret' = [ret EXCEPT ![c] = v] /\ Pop(c)

Init ==
  /\ G = GLiteral
  /\ SECONDS_IN_MINUTE = SecondsLiteral
  /\ call = [c \in Callers |-> NoCall]
  /\ stack = [c \in Callers |-> <<>>]
  /\ ret = [c \in Callers |-> NoValue]

\* a caller with no call in progress invokes f(a)
Invoke(c, f, a) ==
  /\ stack[c] = <<>>
  /\ call' = [call EXCEPT ![c] = Frame(f, a)]
  /\ stack' = [stack EXCEPT ![c] = <<Frame(f, a)>>]
  /\ ret' = [ret EXCEPT ![c] = NoValue]
  /\ UNCHANGED <<G, SECONDS_IN_MINUTE>>

Exec_get_period(c) ==
  /\ Running(c, "get_period")
  /\ Return(c, get_period(Top(c).a[1]))
  /\ UNCHANGED <<G, SECONDS_IN_MINUTE, call>>

Exec_max_height(c) ==
  /\ Running(c, "max_height")
  /\ Return(c, max_height(Top(c).a[1], Top(c).a[2]))
  /\ UNCHANGED <<G, SECONDS_IN_MINUTE, call>>

\* (mutant) max_speed doubles the module constant G in place
Exec_max_speed_scaling_global(c) ==
  /\ Running(c, "max_speed")
  /\ \/ /\ ret[c] = NoValue
        /\ Push(c, Frame("max_height", <<Top(c).a[1], Top(c).a[2]>>))
        /\ UNCHANGED <<ret, G>>
     \/ /\ ret[c] # NoValue
        /\ G' = Mul(FromInt(2), G)
        /\ Return(c, Sqrt(Mul(G', ret[c])))
  /\ UNCHANGED <<SECONDS_IN_MINUTE, call>>

\* max_speed(length, theta) calls max_height(length, theta)
Exec_max_speed(c) ==
  /\ Running(c, "max_speed")
  /\ \/ /\ ret[c] = NoValue
        /\ Push(c, Frame("max_height", <<Top(c).a[1], Top(c).a[2]>>))
        /\ UNCHANGED ret
     \/ /\ ret[c] # NoValue
        /\ Return(c, max_speed_return(ret[c]))
  /\ UNCHANGED <<G, SECONDS_IN_MINUTE, call>>

Exec_check_small_angle(c) ==
  /\ Running(c, "check_small_angle")
  /\ Return(c, Bool(check_small_angle(Top(c).a[1])))
  /\ UNCHANGED <<G, SECONDS_IN_MINUTE, call>>

\* bpm(length) calls get_period(length)
Exec_bpm(c) ==
  /\ Running(c, "bpm")
  /\ \/ /\ ret[c] = NoValue
        /\ Push(c, Frame("get_period", <<Top(c).a[1]>>))
        /\ UNCHANGED ret
     \/ /\ ret[c] # NoValue
        /\ Return(c, bpm_return(ret[c]))
  /\ UNCHANGED <<G, SECONDS_IN_MINUTE, call>>

\* (mutant) max_speed called with (theta, length)
Exec_calc_energy_swapped(c) ==
  /\ Running(c, "calc_energy")
  /\ \/ /\ ret[c] = NoValue
        /\ Push(c, Frame("max_speed", <<Top(c).a[2], Top(c).a[3]>>))
        /\ UNCHANGED ret
     \/ /\ ret[c] # NoValue
        /\ Return(c, calc_energy_return(Top(c).a[1], ret[c]))
  /\ UNCHANGED <<G, SECONDS_IN_MINUTE, call>>

\* calc_energy(mass, theta, length) calls max_speed(length, theta)
Exec_calc_energy(c) ==
  /\ Running(c, "calc_energy")
  /\ \/ /\ ret[c] = NoValue
        /\ Push(c, Frame("max_speed", <<Top(c).a[3], Top(c).a[2]>>))
        /\ UNCHANGED ret
     \/ /\ ret[c] # NoValue
        /\ Return(c, calc_energy_return(Top(c).a[1], ret[c]))
  /\ UNCHANGED <<G, SECONDS_IN_MINUTE, call>>

(***************************************************************************)
(* Arguments the callers pass                                              *)
(***************************************************************************)
One == FromInt(1)
Neg(a) == [a EXCEPT !.s = 1 - a.s]
\* the next float above a positive finite a
NextUp(a) ==
  IF a.m + 1 = 2^Precision THEN Fin(a.s, 2^(Precision - 1), a.e + 1)
  ELSE Fin(a.s, a.m + 1, a.e)
MinSubnormal == Fin(0, 1, Qmin)
MaxFinite == Fin(0, 2^Precision - 1, Qmax)
\* np.pi / 1800.0
SmallAngle == Div(PI, FromInt(1800))

Lengths ==
  {One, NextUp(One), Dec(1, 4), Dec(6, 5), NextUp(Dec(6, 5)), MinSubnormal,
   MaxFinite, Zero(0), Zero(1), Neg(One), Neg(MinSubnormal), Inf(0), NaN}
Thetas ==
  {Zero(0), SmallAngle, NextUp(SmallAngle), Dec(1, 2), One, Dec(3, 2),
   FromInt(2), PI, Neg(Dec(1, 2)), NaN}
Masses == {One, FromInt(3), Zero(0), Neg(One)}

\* the arguments of the concurrent callers
ConcLengths == {One, Neg(One)}
ConcThetas == {Dec(1, 2)}
ConcMasses == {One}

Invocation(c, Ls, Ts, Ms) ==
  \/ \E l \in Ls : Invoke(c, "get_period", <<l>>)
  \/ \E l \in Ls, t \in Ts : Invoke(c, "max_height", <<l, t>>)
  \/ \E l \in Ls, t \in Ts : Invoke(c, "max_speed", <<l, t>>)
  \/ \E t \in Ts : Invoke(c, "check_small_angle", <<t>>)
  \/ \E l \in Ls : Invoke(c, "bpm", <<l>>)
  \/ \E m \in Ms, t \in Ts, l \in Ls : Invoke(c, "calc_energy", <<m, t, l>>)

Exec(c) ==
  \/ Exec_get_period(c)
  \/ Exec_max_height(c)
  \/ Exec_max_speed(c)
  \/ Exec_check_small_angle(c)
  \/ Exec_bpm(c)
  \/ Exec_calc_energy(c)

\* one caller, calling with every combination of arguments
Next == Invocation(1, Lengths, Thetas, Masses) \/ Exec(1)

Spec == Init /\ [][Next]_vars

\* NumCallers callers running concurrently
NextConc ==
  \E c \in Callers : Invocation(c, ConcLengths, ConcThetas, ConcMasses) \/ Exec(c)

SpecConc == Init /\ [][NextConc]_vars

\* the call of caller c has returned from f
Done(c, f) == call[c].f = f /\ stack[c] = <<>>
Arg(c, i) == call[c].a[i]

(***************************************************************************)
(* Helpers of the properties                                               *)
(***************************************************************************)
Abs(n) == IF n < 0 THEN 0 - n ELSE n

\* the same value: a == b, or both NaN
SameValue(a, b) == Eq(a, b) \/ (IsNaN(a) /\ IsNaN(b))

\* |a - n/d| <= t/d, for a positive finite a below 2^Precision
Near(a, n, d, t) ==
  /\ IsFinite(a) /\ a.s = 0 /\ a.e <= 0
  /\ Abs(a.m * d - n * 2^(0 - a.e)) <= t * 2^(0 - a.e)

\* the next float below a positive finite a
NextDown(a) ==
  IF a.m = 2^(Precision - 1) /\ a.e > Qmin
    THEN Fin(a.s, 2^Precision - 1, a.e - 1)
    ELSE Fin(a.s, a.m - 1, a.e)

\* a is b or one of the two floats next to b
WithinOneUlp(a, b) == a \in {b, NextUp(b), NextDown(b)}

\* |a - b| <= 2^(4 - Precision) * |b| for normal a, b of one sign: a
\* relative error of at most 16 units of roundoff
RelClose(a, b) ==
  /\ IsNormal(a) /\ IsNormal(b) /\ a.s = b.s
  /\ Abs(a.e - b.e) <= 1
  /\ LET q  == IF a.e < b.e THEN a.e ELSE b.e
         ma == a.m * 2^(a.e - q)
         mb == b.m * 2^(b.e - q)
     IN  Abs(ma - mb) * 2^(Precision - 4) <= mb

\* what the call fr returns when it runs alone
Result(fr) ==
  CASE fr.f = "get_period" -> get_period(fr.a[1])
    [] fr.f = "max_height" -> max_height(fr.a[1], fr.a[2])
    [] fr.f = "max_speed" -> max_speed(fr.a[1], fr.a[2])
    [] fr.f = "check_small_angle" -> Bool(check_small_angle(fr.a[1]))
    [] fr.f = "bpm" -> bpm(fr.a[1])
    [] fr.f = "calc_energy" -> calc_energy(fr.a[1], fr.a[2], fr.a[3])

(***************************************************************************)
(* C1                                                                      *)
(***************************************************************************)
\* C1: check_small_angle(theta) returns True if and only if
\* theta <= pi/1800: True at the boundary pi/1800 itself, False at the next
\* float above it, True at 0.
C1_SmallAngleIff ==
  \A c \in Callers :
    Done(c, "check_small_angle") =>
      /\ ret[c] \in {Bool(TRUE), Bool(FALSE)}
      /\ (ret[c] = Bool(TRUE)) <=> Le(Arg(c, 1), Div(PI, FromInt(1800)))
      /\ Arg(c, 1) = Div(PI, FromInt(1800)) => ret[c] = Bool(TRUE)
      /\ Lt(Div(PI, FromInt(1800)), Arg(c, 1)) => ret[c] = Bool(FALSE)
      /\ Arg(c, 1) = Zero(0) => ret[c] = Bool(TRUE)

\* check_small_angle has returned True for the boundary value
C1_Witness ==
  /\ Done(1, "check_small_angle")
  /\ Arg(1, 1) = SmallAngle
  /\ ret[1] = Bool(TRUE)

(***************************************************************************)
(* C2                                                                      *)
(***************************************************************************)
\* C2 as stated: for length > 0, get_period(length) > 0, and
\* length < length2 implies get_period(length) < get_period(length2).
C2_StrictlyPositiveAndIncreasing ==
  \A c \in Callers :
    Done(c, "get_period") /\ Lt(Zero(0), Arg(c, 1)) =>
      /\ Lt(Zero(0), ret[c])
      /\ \A l2 \in Lengths :
           Lt(Arg(c, 1), l2) => Lt(ret[c], get_period(l2))

\* C2 as amended: for length > 0, get_period(length) >= 0, and > 0 unless
\* length / G underflows to zero; length < length2 implies
\* get_period(length) <= get_period(length2).
C2_NonNegativeAndNonDecreasing ==
  \A c \in Callers :
    Done(c, "get_period") /\ Lt(Zero(0), Arg(c, 1)) =>
      /\ Le(Zero(0), ret[c])
      /\ ~IsZero(Div(Arg(c, 1), GLiteral)) => Lt(Zero(0), ret[c])
      /\ \A l2 \in Lengths :
           Lt(Arg(c, 1), l2) => Le(ret[c], get_period(l2))

\* get_period has returned the same positive period for 1.2 as it returns
\* for the next float above 1.2
C2_Witness ==
  /\ Done(1, "get_period")
  /\ Arg(1, 1) = Dec(6, 5)
  /\ Lt(Zero(0), ret[1])
  /\ ret[1] = get_period(NextUp(Dec(6, 5)))

(***************************************************************************)
(* C3                                                                      *)
(***************************************************************************)
\* C3 as stated: bpm(length) is 60 / get_period(length), and
\* bpm(length) * get_period(length) = 60 whenever get_period(length) is a
\* finite non-zero number.
C3_QuotientAndExactProduct ==
  \A c \in Callers :
    Done(c, "bpm") =>
      LET p == get_period(Arg(c, 1)) IN
      /\ ret[c] = Div(FromInt(60), p)
      /\ IsFinite(p) /\ ~IsZero(p) => Eq(Mul(ret[c], p), FromInt(60))

\* C3 as amended: bpm(length) is 60 / get_period(length), and
\* bpm(length) * get_period(length) is 60 or a float next to 60 whenever
\* get_period(length) is a finite non-zero number.
C3_QuotientAndRoundedProduct ==
  \A c \in Callers :
    Done(c, "bpm") =>
      LET p == get_period(Arg(c, 1)) IN
      /\ ret[c] = Div(FromInt(60), p)
      /\ IsFinite(p) /\ ~IsZero(p) =>
           WithinOneUlp(Mul(ret[c], p), FromInt(60))

\* bpm has returned for a length whose product bpm * period is not 60
C3_Witness ==
  /\ Done(1, "bpm")
  /\ Arg(1, 1) = Dec(6, 5)
  /\ IsFinite(ret[1])
  /\ Mul(ret[1], get_period(Dec(6, 5))) # FromInt(60)

(***************************************************************************)
(* C4                                                                      *)
(***************************************************************************)
\* C4: max_speed(length, theta) is sqrt(2 * 9.81 * max_height(length,
\* theta)), where max_height(length, theta) is length * cos(theta).
C4_MaxSpeedFormula ==
  \A c \in Callers :
    /\ Done(c, "max_speed") =>
         ret[c] = Sqrt(Mul(Mul(FromInt(2), Dec(981, 100)),
                           Mul(Arg(c, 1), Cos(Arg(c, 2)))))
    /\ Done(c, "max_height") => ret[c] = Mul(Arg(c, 1), Cos(Arg(c, 2)))

\* max_speed has returned a positive speed for length 1.0, theta 0.5
C4_Witness ==
  /\ Done(1, "max_speed")
  /\ Arg(1, 1) = One /\ Arg(1, 2) = Dec(1, 2)
  /\ Lt(Zero(0), ret[1])

(***************************************************************************)
(* C5                                                                      *)
(***************************************************************************)
\* C5: calc_energy(mass, theta, length) is
\* 0.5 * mass * max_speed(length, theta)**2, max_speed taking its arguments
\* in the order (length, theta).
C5_EnergyFormula ==
  \A c \in Callers :
    Done(c, "calc_energy") =>
      LET v == max_speed(Arg(c, 3), Arg(c, 2))
      IN  ret[c] = Mul(Mul(Dec(1, 2), Arg(c, 1)), Mul(v, v))

\* calc_energy(1.0, 0.5, 0.25) has returned a positive energy
C5_Witness ==
  /\ Done(1, "calc_energy")
  /\ call[1].a = <<One, Dec(1, 2), Dec(1, 4)>>
  /\ Lt(Zero(0), ret[1])

(***************************************************************************)
(* C6                                                                      *)
(***************************************************************************)
\* C6 as stated: get_period(1.0) is 2.0064 to within 0.0001, and bpm(1.0)
\* is 29.9 to within 0.05.
C6_PeriodOfOneMetre_2_0064 ==
  \A c \in Callers :
    /\ Done(c, "get_period") /\ Arg(c, 1) = One =>
         Near(ret[c], 20064, 10000, 1)
    /\ Done(c, "bpm") /\ Arg(c, 1) = One => Near(ret[c], 2990, 100, 5)

\* C6 as amended: get_period(1.0) is 2.0061 to within 0.0001, and bpm(1.0)
\* is 29.9 to within 0.05.
C6_PeriodOfOneMetre_2_0061 ==
  \A c \in Callers :
    /\ Done(c, "get_period") /\ Arg(c, 1) = One =>
         Near(ret[c], 20061, 10000, 1)
    /\ Done(c, "bpm") /\ Arg(c, 1) = One => Near(ret[c], 2990, 100, 5)

\* get_period(1.0) has returned a finite period
C6_Witness ==
  /\ Done(1, "get_period")
  /\ Arg(1, 1) = One
  /\ IsFinite(ret[1]) /\ ~IsZero(ret[1])

(***************************************************************************)
(* C7                                                                      *)
(***************************************************************************)
\* C7 as stated: for every negative length get_period(length) is NaN, and
\* for every negative length and every theta max_speed(length, theta) is
\* NaN.
C7_NegativeLengthGivesNaN ==
  \A c \in Callers :
    /\ Done(c, "get_period") /\ Lt(Arg(c, 1), Zero(0)) => IsNaN(ret[c])
    /\ Done(c, "max_speed") /\ Lt(Arg(c, 1), Zero(0)) => IsNaN(ret[c])

\* C7 as amended: for a negative length get_period(length) is NaN, except
\* that it is -0.0 when length / G underflows to -0.0; max_speed(length,
\* theta) is NaN exactly when length * cos(theta) is negative or NaN, and is
\* a non-negative number when cos(theta) < 0 makes the product positive.
C7_NaNWhereRadicandNegative ==
  \A c \in Callers :
    /\ Done(c, "get_period") /\ Lt(Arg(c, 1), Zero(0)) =>
         IF Lt(Div(Arg(c, 1), GLiteral), Zero(0))
           THEN IsNaN(ret[c]) ELSE ret[c] = Zero(1)
    /\ Done(c, "max_speed") /\ Lt(Arg(c, 1), Zero(0)) =>
         LET h == Mul(Arg(c, 1), Cos(Arg(c, 2)))
         IN  IF IsNaN(h) \/ Lt(h, Zero(0))
               THEN IsNaN(ret[c]) ELSE Le(Zero(0), ret[c])

\* max_speed(-1.0, pi) has returned a positive speed
C7_Witness ==
  /\ Done(1, "max_speed")
  /\ Arg(1, 1) = Neg(One) /\ Arg(1, 2) = PI
  /\ Lt(Zero(0), ret[1])

(***************************************************************************)
(* C8                                                                      *)
(***************************************************************************)
\* no call has ended by raising an exception
NoneRaised == \A c \in Callers : ret[c] # Raised

\* C8 as stated: for length <= 0 nothing raises; bpm(0) is an infinity, bpm
\* of a negative length is NaN, and calc_energy is NaN whenever max_speed is.
C8_AnomaliesPropagate_NaNForNegative ==
  /\ NoneRaised
  /\ \A c \in Callers :
       /\ Done(c, "bpm") /\ IsZero(Arg(c, 1)) => IsInf(ret[c])
       /\ Done(c, "bpm") /\ Lt(Arg(c, 1), Zero(0)) => IsNaN(ret[c])
       /\ Done(c, "calc_energy") /\ IsNaN(max_speed(Arg(c, 3), Arg(c, 2)))
            => IsNaN(ret[c])

\* C8 as amended: for length <= 0 nothing raises; bpm(0.0) is +Infinity and
\* bpm(-0.0) is -Infinity; bpm of a negative length is the NaN get_period
\* produced, or -Infinity when length / G underflows to -0.0; calc_energy is
\* NaN whenever max_speed is.
C8_AnomaliesPropagate ==
  /\ NoneRaised
  /\ \A c \in Callers :
       /\ Done(c, "bpm") /\ Arg(c, 1) = Zero(0) => ret[c] = Inf(0)
       /\ Done(c, "bpm") /\ Arg(c, 1) = Zero(1) => ret[c] = Inf(1)
       /\ Done(c, "bpm") /\ Lt(Arg(c, 1), Zero(0)) =>
            IF Lt(Div(Arg(c, 1), GLiteral), Zero(0))
              THEN IsNaN(ret[c]) ELSE ret[c] = Inf(1)
       /\ Done(c, "calc_energy") /\ IsNaN(max_speed(Arg(c, 3), Arg(c, 2)))
            => IsNaN(ret[c])

\* bpm(0.0) has returned +Infinity
C8_Witness ==
  /\ Done(1, "bpm")
  /\ Arg(1, 1) = Zero(0)
  /\ ret[1] = Inf(0)

(***************************************************************************)
(* C9                                                                      *)
(***************************************************************************)
\* C9: however the calls of concurrent callers interleave, each call
\* returns what it returns when run alone with the same arguments, equal
\* calls return equal results, and G and SECONDS_IN_MINUTE keep the values
\* 9.81 and 60.0.
C9_ConcurrentCallsArePure ==
  /\ G = Dec(981, 100)
  /\ SECONDS_IN_MINUTE = FromInt(60)
  /\ \A c \in Callers :
       call[c] # NoCall /\ stack[c] = <<>> => ret[c] = Result(call[c])
  /\ \A c, d \in Callers :
       call[c] # NoCall /\ call[c] = call[d] /\ stack[c] = <<>>
         /\ stack[d] = <<>> => ret[c] = ret[d]

\* one caller's calc_energy has returned while another caller is inside
\* the max_speed its own calc_energy called
C9_Witness ==
  \E c, d \in Callers :
    /\ c # d
    /\ Done(c, "calc_energy") /\ IsFinite(ret[c])
    /\ call[d].f = "calc_energy" /\ Len(stack[d]) = 2 /\ ret[d] # NoValue

(***************************************************************************)
(* C10                                                                     *)
(***************************************************************************)
\* the closed form mass * G * length * cos(theta)
ClosedForm(mass, theta, length) ==
  Mul(Mul(Mul(mass, Dec(981, 100)), length), Cos(theta))

====
